---------------------------- MODULE Spec2Model ----------------------------
(* Mobile Synthesizer backend (synthesizer_app/app): the FastAPI          *)
(* application object built when app/main.py is imported, the process     *)
(* start-up in main(), and the handling of HTTP requests by the route     *)
(* table.  Paths are sequences of segments: the URL path "/a/b" is        *)
(* <<"a", "b">>, "/" is <<"">> and a trailing slash is a last segment "". *)
(* A file's bytes are identified with the file's location on disk, so two *)
(* different files never have equal bytes.                                *)
EXTENDS Integers, Sequences, FiniteSets, TLC

VARIABLES
    pc,         \* "init" | "imported" | "failed" | "serving" | "exited"
    supplied,   \* host/port the operator asks for ( <<>> = not supplied )
    listeners,  \* set of <<host, port>> sockets the process has bound
    routes,     \* app.router.routes, in registration order
    disk,       \* the file system: [files, dirs], sets of absolute paths
    inflight    \* requests being handled: [req, phase, response]

vars == <<pc, supplied, listeners, routes, disk, inflight>>

--------------------------------------------------------------------------
(* Bounds *)

MaxInFlight == 2
MaxSegs == 3

--------------------------------------------------------------------------
(* Paths (pathlib / os.path) *)

Parent(p) == SubSeq(p, 1, Len(p) - 1)

IsPrefix(d, p) == Len(d) <= Len(p) /\ SubSeq(p, 1, Len(d)) = d

\* os.path.normpath of a relative path given by its segments: "" and "."
\* are dropped, "seg/.." collapses, leading ".." are kept.
RECURSIVE NormRel(_, _)
NormRel(segs, acc) ==
    IF segs = <<>> THEN acc
    ELSE LET s == Head(segs) IN
         IF s = "" \/ s = "." THEN NormRel(Tail(segs), acc)
         ELSE IF s = ".." /\ acc # <<>> /\ acc[Len(acc)] # ".."
              THEN NormRel(Tail(segs), Parent(acc))
              ELSE NormRel(Tail(segs), Append(acc, s))

\* os.path.abspath / realpath of an absolute path without symlinks: as
\* above, but ".." at the root stays at the root.
RECURSIVE NormAbs(_, _)
NormAbs(segs, acc) ==
    IF segs = <<>> THEN acc
    ELSE LET s == Head(segs) IN
         IF s = "" \/ s = "." THEN NormAbs(Tail(segs), acc)
         ELSE IF s = ".."
              THEN NormAbs(Tail(segs), IF acc = <<>> THEN acc ELSE Parent(acc))
              ELSE NormAbs(Tail(segs), Append(acc, s))

FILE_main == <<"app", "main.py">>
FILE_pages == <<"app", "api", "pages.py">>

BASE_DIR == Parent(NormAbs(FILE_main, <<>>))
STATIC_DIR == BASE_DIR \o <<"static">>
TEMPLATES_DIR == BASE_DIR \o <<"templates">>

Pages == {"synthesizer", "mixer", "presets", "sequencer", "recording",
          "effects", "profile"}

--------------------------------------------------------------------------
(* Responses *)

NoResponse == [status |-> 0, ctype |-> "", body |-> <<>>]

JSONResponse(content) ==
    [status |-> 200, ctype |-> "application/json", body |-> <<"json">> \o content]

NotFound ==
    [status |-> 404, ctype |-> "application/json",
     body |-> <<"json", "detail", "Not Found">>]

MethodNotAllowed ==
    [status |-> 405, ctype |-> "application/json",
     body |-> <<"json", "detail", "Method Not Allowed">>]

\* An exception escaping a handler: the framework's default error response.
ServerError ==
    [status |-> 500, ctype |-> "text/plain; charset=utf-8",
     body |-> <<"text", "Internal Server Error">>]

RedirectResponse(path) ==
    [status |-> 307, ctype |-> "", body |-> <<"location">> \o path]

--------------------------------------------------------------------------
(* Templates (Jinja2Templates) *)

Jinja2Templates(directory) == [directory |-> directory]

templates == Jinja2Templates(TEMPLATES_DIR)

\* The rendered markup of a template: the templates are presentation
\* assets that read nothing from the context they are rendered with.
Render(source, context) == <<"html">> \o source

\* templates.TemplateResponse(name, context): the loader looks the name up
\* under the templates directory at call time; a missing file raises
\* TemplateNotFound, which escapes the handler.
\* Variant: a missing template is reported as 404 instead of raising.
TemplateResponse_not_found(t, name, context, fs) ==
    LET file == Append(t.directory, name) IN
    IF file \in fs.files
    THEN [status |-> 200, ctype |-> "text/html; charset=utf-8",
          body |-> Render(file, context)]
    ELSE [status |-> 404, ctype |-> "application/json",
          body |-> <<"json", "detail", "Not Found">>]

TemplateResponse(t, name, context, fs) ==
    LET file == Append(t.directory, name) IN
    IF file \in fs.files
    THEN [status |-> 200, ctype |-> "text/html; charset=utf-8",
          body |-> Render(file, context)]
    ELSE ServerError

--------------------------------------------------------------------------
(* Handlers of app/main.py *)

\* Variant: a wrong status string in the root payload.
root_copy_paste ==
    JSONResponse(<<"message", "Mobile Synthesizer API is running",
                   "version", "0.1.0", "status", "unhealthy">>)

root ==
    JSONResponse(<<"message", "Mobile Synthesizer API is running",
                   "version", "0.1.0", "status", "healthy">>)

\* Variant: the handler lets a query string choose the template.
synthesizer_interface_by_query(request, fs) ==
    TemplateResponse(templates,
                     IF request.query = "" THEN "synthesizer.html" ELSE "mixer.html",
                     [request |-> request], fs)

synthesizer_interface(request, fs) ==
    TemplateResponse(templates, "synthesizer.html", [request |-> request], fs)

\* Variant: the handler names another page's template.
mixer_interface_copy_paste(request, fs) ==
    TemplateResponse(templates, "synthesizer.html", [request |-> request], fs)

mixer_interface(request, fs) ==
    TemplateResponse(templates, "mixer.html", [request |-> request], fs)

presets_interface(request, fs) ==
    TemplateResponse(templates, "presets.html", [request |-> request], fs)

sequencer_interface(request, fs) ==
    TemplateResponse(templates, "sequencer.html", [request |-> request], fs)

recording_interface(request, fs) ==
    TemplateResponse(templates, "recording.html", [request |-> request], fs)

effects_interface(request, fs) ==
    TemplateResponse(templates, "effects.html", [request |-> request], fs)

profile_interface(request, fs) ==
    TemplateResponse(templates, "profile.html", [request |-> request], fs)

api_health ==
    JSONResponse(<<"status", "healthy",
                   "message", "Mobile Synthesizer API is operational">>)

--------------------------------------------------------------------------
(* Handlers of app/api/pages.py and app/api/endpoints.py *)

\* Variant: the templates directory taken next to pages.py (app/api).
pages_TEMPLATES_DIR_one_parent ==
    Parent(NormAbs(FILE_pages, <<>>)) \o <<"templates">>

pages_TEMPLATES_DIR == Parent(Parent(NormAbs(FILE_pages, <<>>))) \o <<"templates">>

pages_templates == Jinja2Templates(pages_TEMPLATES_DIR)

pages_synthesizer_interface(request, fs) ==
    TemplateResponse(pages_templates, "synthesizer.html", [request |-> request], fs)

pages_mixer_interface(request, fs) ==
    TemplateResponse(pages_templates, "mixer.html", [request |-> request], fs)

pages_presets_interface(request, fs) ==
    TemplateResponse(pages_templates, "presets.html", [request |-> request], fs)

pages_sequencer_interface(request, fs) ==
    TemplateResponse(pages_templates, "sequencer.html", [request |-> request], fs)

pages_recording_interface(request, fs) ==
    TemplateResponse(pages_templates, "recording.html", [request |-> request], fs)

pages_effects_interface(request, fs) ==
    TemplateResponse(pages_templates, "effects.html", [request |-> request], fs)

pages_profile_interface(request, fs) ==
    TemplateResponse(pages_templates, "profile.html", [request |-> request], fs)

endpoints_api_health ==
    JSONResponse(<<"status", "healthy",
                   "message", "Mobile Synthesizer API is operational">>)

--------------------------------------------------------------------------
(* Static files (StaticFiles(directory=STATIC_DIR), html off) *)

\* Content type from the file name's extension.
GuessType(name) ==
    CASE name \in {"audio-engine.js", "missing.js"} -> "text/javascript"
      [] name = "main.py" -> "text/x-python"
      [] OTHER -> "text/plain"

\* Variant: the resolved path is used without the containment check.
lookup_path_unchecked(directory, path, fs) ==
    NormAbs(directory \o path, <<>>)

\* lookup_path: the only check between the request and the disk is that
\* the resolved path lies under the mounted directory; <<>> when it leaves it.
lookup_path(directory, path, fs) ==
    LET full_path == NormAbs(directory \o path, <<>>) IN
    IF IsPrefix(directory, full_path) THEN full_path ELSE <<>>

\* StaticFiles.get_path + get_response for the path left after the mount
\* point: a regular file is sent, anything else is 404.
StaticFiles_get_response(directory, rest, method, fs) ==
    IF method \notin {"GET", "HEAD"} THEN MethodNotAllowed
    ELSE LET path == NormRel(rest, <<>>)
             full_path == lookup_path(directory, path, fs)
         IN IF full_path \in fs.files
            THEN [status |-> 200, ctype |-> GuessType(full_path[Len(full_path)]),
                  body |-> <<"file">> \o full_path]
            ELSE NotFound

--------------------------------------------------------------------------
(* Route table *)

Route(path, methods, endpoint) ==
    [kind |-> "route", path |-> path, methods |-> methods,
     endpoint |-> endpoint, directory |-> <<>>]

Mount(path, directory) ==
    [kind |-> "mount", path |-> path, methods |-> {},
     endpoint |-> "StaticFiles", directory |-> directory]

\* FastAPI(title, description, version): openapi_url, docs_url and
\* redoc_url are left at their defaults, so the constructor registers the
\* schema and documentation routes before any route of the module.
FastAPI ==
    << Route(<<"openapi.json">>, {"GET", "HEAD"}, "openapi"),
       Route(<<"docs">>, {"GET", "HEAD"}, "swagger_ui_html"),
       Route(<<"docs", "oauth2-redirect">>, {"GET", "HEAD"}, "swagger_ui_redirect"),
       Route(<<"redoc">>, {"GET", "HEAD"}, "redoc_html") >>

\* The module body of app/main.py, top to bottom.
MainRoutes ==
    FastAPI \o
    << Mount(<<"static">>, STATIC_DIR),
       Route(<<"">>, {"GET"}, "root"),
       Route(<<"synthesizer">>, {"GET"}, "synthesizer_interface"),
       Route(<<"mixer">>, {"GET"}, "mixer_interface"),
       Route(<<"presets">>, {"GET"}, "presets_interface"),
       Route(<<"sequencer">>, {"GET"}, "sequencer_interface"),
       Route(<<"recording">>, {"GET"}, "recording_interface"),
       Route(<<"effects">>, {"GET"}, "effects_interface"),
       Route(<<"profile">>, {"GET"}, "profile_interface"),
       Route(<<"api", "health">>, {"GET"}, "api_health") >>

\* APIRouter(prefix): every route path is the prefix followed by the path
\* given to the decorator.
APIRouter(prefix, rs) ==
    [i \in 1..Len(rs) |-> [rs[i] EXCEPT !.path = prefix \o @]]

pages_router ==
    APIRouter(<<>>,
      << Route(<<"synthesizer">>, {"GET"}, "pages.synthesizer_interface"),
         Route(<<"mixer">>, {"GET"}, "pages.mixer_interface"),
         Route(<<"presets">>, {"GET"}, "pages.presets_interface"),
         Route(<<"sequencer">>, {"GET"}, "pages.sequencer_interface"),
         Route(<<"recording">>, {"GET"}, "pages.recording_interface"),
         Route(<<"effects">>, {"GET"}, "pages.effects_interface"),
         Route(<<"profile">>, {"GET"}, "pages.profile_interface") >>)

endpoints_router ==
    APIRouter(<<"api">>,
      << Route(<<"health">>, {"GET"}, "endpoints.api_health") >>)

\* An application that includes the two routers instead of the inline
\* handlers.
RouterRoutes == FastAPI \o pages_router \o endpoints_router

--------------------------------------------------------------------------
(* Dispatch (Router.__call__) *)

\* The part of the request path left after a mount point.
Rest(route, path) == SubSeq(path, Len(route.path) + 1, Len(path))

\* Variant: the root route matches every path.
Match_unanchored(route, request) ==
    IF route.kind = "mount"
    THEN IF IsPrefix(route.path, request.path) /\ Len(request.path) > Len(route.path)
         THEN "FULL" ELSE "NONE"
    ELSE IF route.path = request.path \/ route.path = <<"">>
         THEN IF request.method \in route.methods THEN "FULL" ELSE "PARTIAL"
         ELSE "NONE"

\* Variant: the mount matches every path, as if mounted at "/".
Match_mount_any(route, request) ==
    IF route.kind = "mount"
    THEN "FULL"
    ELSE IF route.path = request.path
         THEN IF request.method \in route.methods THEN "FULL" ELSE "PARTIAL"
         ELSE "NONE"

\* Route.matches / Mount.matches: a route matches its exact path, fully
\* when the method is one of its methods; a mount matches every path
\* strictly below its mount point, whatever the method.
Match(route, request) ==
    IF route.kind = "mount"
    THEN IF IsPrefix(route.path, request.path) /\ Len(request.path) > Len(route.path)
         THEN "FULL" ELSE "NONE"
    ELSE IF route.path = request.path
         THEN IF request.method \in route.methods THEN "FULL" ELSE "PARTIAL"
         ELSE "NONE"

\* The endpoint a route names, called with the request.
Call(route, request, fs) ==
    CASE route.endpoint = "StaticFiles" ->
           StaticFiles_get_response(route.directory, Rest(route, request.path),
                                    request.method, fs)
      [] route.endpoint = "root" -> root
      [] route.endpoint = "synthesizer_interface" -> synthesizer_interface(request, fs)
      [] route.endpoint = "mixer_interface" -> mixer_interface(request, fs)
      [] route.endpoint = "presets_interface" -> presets_interface(request, fs)
      [] route.endpoint = "sequencer_interface" -> sequencer_interface(request, fs)
      [] route.endpoint = "recording_interface" -> recording_interface(request, fs)
      [] route.endpoint = "effects_interface" -> effects_interface(request, fs)
      [] route.endpoint = "profile_interface" -> profile_interface(request, fs)
      [] route.endpoint = "api_health" -> api_health
      [] route.endpoint = "pages.synthesizer_interface" ->
           pages_synthesizer_interface(request, fs)
      [] route.endpoint = "pages.mixer_interface" -> pages_mixer_interface(request, fs)
      [] route.endpoint = "pages.presets_interface" -> pages_presets_interface(request, fs)
      [] route.endpoint = "pages.sequencer_interface" ->
           pages_sequencer_interface(request, fs)
      [] route.endpoint = "pages.recording_interface" ->
           pages_recording_interface(request, fs)
      [] route.endpoint = "pages.effects_interface" -> pages_effects_interface(request, fs)
      [] route.endpoint = "pages.profile_interface" -> pages_profile_interface(request, fs)
      [] route.endpoint = "endpoints.api_health" -> endpoints_api_health
      [] route.endpoint = "openapi" ->
           [status |-> 200, ctype |-> "application/json",
            body |-> <<"json", "openapi", "Mobile Synthesizer", "0.1.0">>]
      [] route.endpoint = "swagger_ui_html" ->
           [status |-> 200, ctype |-> "text/html; charset=utf-8",
            body |-> <<"html", "swagger-ui", "Mobile Synthesizer">>]
      [] route.endpoint = "swagger_ui_redirect" ->
           [status |-> 200, ctype |-> "text/html; charset=utf-8",
            body |-> <<"html", "swagger-ui-redirect">>]
      [] route.endpoint = "redoc_html" ->
           [status |-> 200, ctype |-> "text/html; charset=utf-8",
            body |-> <<"html", "redoc", "Mobile Synthesizer">>]

RECURSIVE RStrip(_)
RStrip(path) ==
    IF path # <<>> /\ path[Len(path)] = "" THEN RStrip(Parent(path)) ELSE path

First(S) == CHOOSE i \in S : \A j \in S : i <= j

\* Router.__call__: the first full match handles the request; failing that
\* the first partial match answers 405; failing that a path that matches
\* once a trailing slash is added or removed is redirected; else 404.
Router_call(rts, request, fs) ==
    LET full == {i \in 1..Len(rts) : Match(rts[i], request) = "FULL"}
        partial == {i \in 1..Len(rts) : Match(rts[i], request) = "PARTIAL"}
        alt == [request EXCEPT !.path =
                  IF @[Len(@)] = "" THEN RStrip(@) ELSE Append(@, "")]
    IN IF full # {} THEN Call(rts[First(full)], request, fs)
       ELSE IF partial # {} THEN MethodNotAllowed
       ELSE IF /\ request.path # <<"">>
               /\ \E i \in 1..Len(rts) : Match(rts[i], alt) # "NONE"
            THEN RedirectResponse(alt.path)
       ELSE NotFound

--------------------------------------------------------------------------
(* The environment: operator, disk and clients *)

\* What the operator asks the process to listen on; <<>> is "not given".
OperatorConfigs ==
    { [host |-> <<>>, port |-> <<>>], [host |-> <<"127.0.0.1">>, port |-> <<9000>>] }

PageTemplate(p) ==
    CASE p = "synthesizer" -> "synthesizer.html"
      [] p = "mixer" -> "mixer.html"
      [] p = "presets" -> "presets.html"
      [] p = "sequencer" -> "sequencer.html"
      [] p = "recording" -> "recording.html"
      [] p = "effects" -> "effects.html"
      [] p = "profile" -> "profile.html"

TemplateFile(p) == <<"app", "templates", PageTemplate(p)>>

AudioEngine == <<"app", "static", "js", "audio-engine.js">>

\* Deployments: every template present, one missing (the first or the last
\* page), or none present, so that every handler runs both with and without
\* its template; and one deployment without the static directory.
MissingScenarios == {{}, {"synthesizer"}, {"profile"}, Pages}

DiskWith(missing, hasStatic) ==
    [files |-> {FILE_main, FILE_pages}
               \cup {TemplateFile(p) : p \in Pages \ missing}
               \cup (IF hasStatic THEN {AudioEngine} ELSE {}),
     dirs |-> {<<"app">>, <<"app", "api">>, <<"app", "templates">>}
              \cup (IF hasStatic
                    THEN {<<"app", "static">>, <<"app", "static", "js">>}
                    ELSE {})]

Disks == {DiskWith(m, TRUE) : m \in MissingScenarios} \cup {DiskWith({}, FALSE)}

Queries == {"", "theme=dark"}

Get(path, query) == [method |-> "GET", path |-> path, query |-> query]

Requests ==
    {Get(<<p>>, q) : p \in Pages, q \in Queries}
    \cup {Get(path, "") : path \in
            { <<"">>, <<"api", "health">>, <<"docs">>, <<"redoc">>,
              <<"openapi.json">>, <<"unknown">>, <<"static">>,
              <<"static", "js", "audio-engine.js">>, <<"static", "missing.js">>,
              <<"static", "..", "main.py">> }}
    \cup {[method |-> "POST", path |-> <<"synthesizer">>, query |-> ""]}

Received(req) == [req |-> req, phase |-> "received", response |-> NoResponse]

--------------------------------------------------------------------------
(* Actions *)

Init ==
    /\ pc = "init"
    /\ supplied \in OperatorConfigs
    /\ listeners = {}
    /\ routes = <<>>
    /\ disk \in Disks
    /\ inflight = {}

\* Importing app.main runs the module body: the FastAPI constructor, the
\* static mount (StaticFiles checks that its directory exists and raises
\* otherwise), the templates object (nothing is read from disk) and the
\* route decorators.
Import ==
    /\ pc = "init"
    /\ IF STATIC_DIR \in disk.dirs
       THEN pc' = "imported" /\ routes' = MainRoutes
       ELSE pc' = "failed" /\ routes' = FastAPI
    /\ UNCHANGED <<supplied, listeners, disk, inflight>>

\* Variant: the listener address is taken from the operator when given.
main_configurable ==
    /\ pc = "imported"
    /\ \/ /\ listeners' =
               {<< IF supplied.host = <<>> THEN "0.0.0.0" ELSE supplied.host[1],
                   IF supplied.port = <<>> THEN 8000 ELSE supplied.port[1] >>}
          /\ pc' = "serving"
       \/ /\ pc' = "exited"
          /\ UNCHANGED listeners
    /\ UNCHANGED <<supplied, routes, disk, inflight>>

\* main(): uvicorn.run(app, host="0.0.0.0", port=8000, reload=True).  The
\* address is a literal.  The application is passed as an object together
\* with reload=True: depending on its version the server library either
\* serves without reloading or refuses and exits before binding.
main ==
    /\ pc = "imported"
    /\ \/ /\ listeners' = {<<"0.0.0.0", 8000>>}
          /\ pc' = "serving"
       \/ /\ pc' = "exited"
          /\ UNCHANGED listeners
    /\ UNCHANGED <<supplied, routes, disk, inflight>>

\* A client sends a request; requests are handled concurrently.
Receive(req) ==
    /\ pc = "serving"
    /\ Cardinality(inflight) < MaxInFlight
    /\ inflight' = inflight \cup {Received(req)}
    /\ UNCHANGED <<pc, supplied, listeners, routes, disk>>

\* Variant: handling a request registers a route for its path.
Respond_registering(r) ==
    /\ pc = "serving"
    /\ r \in inflight
    /\ r.phase = "received"
    /\ inflight' = (inflight \ {r}) \cup
         {[r EXCEPT !.phase = "responded",
                    !.response = Router_call(routes, r.req, disk)]}
    /\ routes' = IF Len(routes) = Len(MainRoutes)
                 THEN Append(routes, Route(r.req.path, {"GET"}, "root"))
                 ELSE routes
    /\ UNCHANGED <<pc, supplied, listeners, disk>>

\* The application answers a request from the route table and the disk.
Respond(r) ==
    /\ pc = "serving"
    /\ r \in inflight
    /\ r.phase = "received"
    /\ inflight' = (inflight \ {r}) \cup
         {[r EXCEPT !.phase = "responded",
                    !.response = Router_call(routes, r.req, disk)]}
    /\ UNCHANGED <<pc, supplied, listeners, routes, disk>>

\* The response has been sent and the request is over.
Complete(r) ==
    /\ pc = "serving"
    /\ r \in inflight
    /\ r.phase = "responded"
    /\ inflight' = inflight \ {r}
    /\ UNCHANGED <<pc, supplied, listeners, routes, disk>>

Next ==
    \/ Import
    \/ main
    \/ \E req \in Requests : Receive(req)
    \/ \E r \in inflight : Respond(r)
    \/ \E r \in inflight : Complete(r)

Spec == Init /\ [][Next]_vars

--------------------------------------------------------------------------
(* Static serving over all short paths and all contents of the disk *)

SegAlphabet ==
    {"..", "js", "audio-engine.js", "main.py", "templates", "synthesizer.html",
     "secret"}

StaticProbes ==
    {<<"static">> \o s : s \in UNION {[1..n -> SegAlphabet] : n \in 1..MaxSegs}}

CandidateFiles ==
    { AudioEngine, <<"app", "static", "main.py">>, FILE_main,
      TemplateFile("synthesizer"), <<"secret">> }

StaticDisks ==
    {[files |-> S \cup {FILE_pages}
                \cup {TemplateFile(p) : p \in Pages \ {"synthesizer"}},
      dirs |-> {<<"app">>, <<"app", "api">>, <<"app", "templates">>,
                <<"app", "static">>, <<"app", "static", "js">>}]
       : S \in SUBSET CandidateFiles}

InitStatic ==
    /\ pc = "serving"
    /\ supplied = [host |-> <<>>, port |-> <<>>]
    /\ listeners = {<<"0.0.0.0", 8000>>}
    /\ routes = MainRoutes
    /\ disk \in StaticDisks
    /\ \E req \in Requests \cup {Get(path, "") : path \in StaticProbes} :
           inflight = {Received(req)}

NextStatic == \E r \in inflight : Respond(r)

SpecStatic == InitStatic /\ [][NextStatic]_vars

--------------------------------------------------------------------------
(* Properties *)

Done == {r \in inflight : r.phase = "responded"}

DoneGet == {r \in Done : r.req.method = "GET"}

PagePaths == {<<p>> : p \in Pages}

HasTemplate(p) == TemplateFile(p) \in disk.files

RootPayload ==
    <<"json", "message", "Mobile Synthesizer API is running",
      "version", "0.1.0", "status", "healthy">>

HealthPayload ==
    <<"json", "status", "healthy",
      "message", "Mobile Synthesizer API is operational">>

\* The rendering of exactly the template <p>.html of the templates directory.
RenderingOf(p) == <<"html", "app", "templates", PageTemplate(p)>>

IsPage200(r, p) ==
    /\ r.response.status = 200
    /\ r.response.ctype \in {"text/html", "text/html; charset=utf-8"}
    /\ r.response.body = RenderingOf(p)

\* C1: for every page name, when the template <name>.html exists, the
\* response to GET /<name> has status 200, an HTML content type and the
\* rendering of exactly <name>.html as its body.
C1_PageServesOwnTemplate ==
    \A r \in DoneGet : \A p \in Pages :
        (r.req.path = <<p>> /\ HasTemplate(p)) => IsPage200(r, p)

C1_Witness ==
    \E r \in DoneGet :
        r.req.path = <<"mixer">> /\ HasTemplate("mixer") /\ r.response.status = 200

\* C2: in every state of the running service, whatever templates are
\* present, GET / answers 200 with exactly the root payload and
\* GET /api/health answers 200 with exactly the health payload.
C2_HealthAlwaysSucceeds ==
    \A r \in DoneGet :
        /\ r.req.path = <<"">> =>
             r.response = [status |-> 200, ctype |-> "application/json",
                           body |-> RootPayload]
        /\ r.req.path = <<"api", "health">> =>
             r.response = [status |-> 200, ctype |-> "application/json",
                           body |-> HealthPayload]

C2_Witness ==
    /\ \A p \in Pages : ~HasTemplate(p)
    /\ \E r1, r2 \in DoneGet :
          /\ r1.req.path = <<"">> /\ r1.response.status = 200
          /\ r2.req.path = <<"api", "health">> /\ r2.response.status = 200

DocPaths == {<<"openapi.json">>, <<"docs">>, <<"docs", "oauth2-redirect">>, <<"redoc">>}

\* C3 as stated: every single-segment GET path that is not a page name is
\* answered 404, and the route table holds nothing but /, /api/health, the
\* seven pages and the /static mount.
C3_Original ==
    /\ \A r \in DoneGet :
          (Len(r.req.path) = 1 /\ r.req.path # <<"">> /\ r.req.path \notin PagePaths)
             => r.response.status = 404
    /\ pc = "serving" =>
          \A i \in 1..Len(routes) :
              routes[i].path \in {<<"">>, <<"api", "health">>, <<"static">>} \cup PagePaths

\* C3 amended: the route table also holds the framework's schema and
\* documentation routes; a single-segment GET path is answered 404 unless
\* it is a page name, one of /docs, /redoc, /openapi.json (answered 200) or
\* /static (redirected to /static/ with 307).
C3_UnknownPageIs404 ==
    /\ \A r \in DoneGet :
          /\ (/\ Len(r.req.path) = 1 /\ r.req.path # <<"">>
              /\ r.req.path \notin PagePaths \cup DocPaths \cup {<<"static">>})
                => r.response = NotFound
          /\ r.req.path \in DocPaths => r.response.status = 200
          /\ r.req.path = <<"static">> => r.response.status = 307
    /\ pc = "serving" =>
          \A i \in 1..Len(routes) :
              /\ routes[i].path \in
                    {<<"">>, <<"api", "health">>, <<"static">>} \cup PagePaths \cup DocPaths
              /\ routes[i].kind = "mount" <=> routes[i].path = <<"static">>

C3_Witness ==
    \E r1, r2 \in DoneGet :
        /\ r1.req.path = <<"unknown">> /\ r1.response.status = 404
        /\ r2.req.path = <<"docs">> /\ r2.response.status = 200

\* C4: templates are not looked at when the service starts (the import
\* succeeds exactly when the static directory exists); a page whose template
\* is missing answers 500 at request time while every page whose template is
\* present and both health endpoints answer 200 as usual.
C4_MissingTemplateIs500 ==
    /\ pc # "init" => (pc = "failed" <=> <<"app", "static">> \notin disk.dirs)
    /\ \A r \in DoneGet :
          /\ \A p \in Pages :
                r.req.path = <<p>> =>
                    IF HasTemplate(p) THEN IsPage200(r, p) ELSE r.response.status = 500
          /\ r.req.path = <<"">> => r.response.status = 200
          /\ r.req.path = <<"api", "health">> => r.response.status = 200

C4_Witness ==
    /\ pc = "serving"
    /\ \E r1, r2 \in DoneGet : \E p1, p2 \in Pages :
          /\ r1.req.path = <<p1>> /\ ~HasTemplate(p1) /\ r1.response.status = 500
          /\ r2.req.path = <<p2>> /\ HasTemplate(p2) /\ r2.response.status = 200

IsStaticPath(path) == Len(path) >= 2 /\ path[1] = "static"

HasDotDot(path) == \E i \in 1..Len(path) : path[i] = ".."

InStatic(file) == Len(file) > 2 /\ file[1] = "app" /\ file[2] = "static"

\* The file a path would reach if its segments were followed on disk from
\* the static directory.
Reached(path) == NormAbs(<<"app", "static">> \o Tail(path), <<>>)

\* C5: a GET /static/<path> whose path has ".." segments never returns the
\* bytes of a file outside the static directory, whatever files exist.
C5_NoTraversal ==
    \A r \in DoneGet :
        (IsStaticPath(r.req.path) /\ HasDotDot(r.req.path)) =>
            \A f \in disk.files :
                ~InStatic(f) => r.response.body # <<"file">> \o f

C5_Witness ==
    \E r \in DoneGet :
        /\ IsStaticPath(r.req.path) /\ HasDotDot(r.req.path)
        /\ Reached(r.req.path) \in disk.files
        /\ ~InStatic(Reached(r.req.path))
        /\ r.response.status = 404

IsPlain(path) == \A i \in 1..Len(path) : path[i] \notin {"..", ".", ""}

\* C6: GET /static/<path> answers 404 when <path> names no existing file
\* under the static directory and the file's bytes when it does; the mount
\* never answers /, /api/health or a page path.
C6_StaticFileOr404 ==
    \A r \in DoneGet :
        /\ (IsStaticPath(r.req.path) /\ IsPlain(r.req.path)) =>
              IF <<"app">> \o r.req.path \in disk.files
              THEN /\ r.response.status = 200
                   /\ r.response.body = <<"file", "app">> \o r.req.path
              ELSE r.response = NotFound
        /\ IsStaticPath(r.req.path) =>
              \/ r.response = NotFound
              \/ /\ r.response.status = 200
                 /\ Len(r.response.body) > 1
                 /\ Tail(r.response.body) \in disk.files
                 /\ InStatic(Tail(r.response.body))
        /\ r.req.path \in {<<"">>, <<"api", "health">>} \cup PagePaths =>
              /\ r.response.status \in {200, 500}
              /\ r.response.body[1] # "file"

C6_Witness ==
    \E r \in DoneGet :
        /\ r.req.path = <<"static", "js", "audio-engine.js">>
        /\ r.response.status = 200
        /\ r.response.body = <<"file", "app", "static", "js", "audio-engine.js">>

\* C7: with the template files unchanged, two GET requests for the same
\* page get identical bodies, whatever was handled in between and whatever
\* the query strings.
C7_RenderingIdempotent ==
    \A r1, r2 \in DoneGet :
        (r1.req.path = r2.req.path /\ r1.req.path \in PagePaths) =>
            r1.response.body = r2.response.body

C7_Witness ==
    \E r1, r2 \in DoneGet :
        /\ r1.req.path = <<"synthesizer">> /\ r2.req.path = <<"synthesizer">>
        /\ r1.req.query # r2.req.query
        /\ r1.response.status = 200 /\ r2.response.status = 200

\* C8 as stated: the listener that start-up binds is on the host and port
\* the operator supplied, and on 0.0.0.0:8000 only for what was not supplied.
C8_Original ==
    pc = "serving" =>
        listeners =
            {<< IF supplied.host = <<>> THEN "0.0.0.0" ELSE supplied.host[1],
                IF supplied.port = <<>> THEN 8000 ELSE supplied.port[1] >>}

\* C8 amended: start-up through main() binds at most one listener, and a
\* listener it binds is on 0.0.0.0:8000 whatever host or port the operator
\* supplied; the service serves only once that listener is bound.
C8_FixedAddress ==
    /\ Cardinality(listeners) <= 1
    /\ listeners \subseteq {<<"0.0.0.0", 8000>>}
    /\ pc = "serving" => listeners = {<<"0.0.0.0", 8000>>}

C8_Witness ==
    /\ pc = "serving"
    /\ supplied = [host |-> <<"127.0.0.1">>, port |-> <<9000>>]
    /\ listeners = {<<"0.0.0.0", 8000>>}

\* C9: once built at start-up the route table never changes: handling a
\* request, with other requests in flight, leaves the routes, the disk, the
\* listener and the configuration as they were, and the response it gives
\* is the one the request would get with nothing else in flight.
C9_RouteTableImmutable ==
    [][pc = "serving" =>
         /\ routes' = routes
         /\ routes = MainRoutes
         /\ disk' = disk /\ listeners' = listeners /\ supplied' = supplied
         /\ \A r \in inflight' \ inflight :
               r.phase = "responded" =>
                   r.response = Router_call(MainRoutes, r.req, disk)]_vars

C9_Witness ==
    \E r1, r2 \in inflight :
        /\ r1.phase = "responded" /\ r2.phase = "received"
        /\ routes = MainRoutes

\* C10: an application built from pages.router and endpoints.router gives
\* every GET on a page path or on /api/health the same response as the
\* inline handlers of main.py.
C10_RouterModulesEquivalent ==
    \A r \in DoneGet :
        r.req.path \in PagePaths \cup {<<"api", "health">>} =>
            r.response = Router_call(RouterRoutes, r.req, disk)

C10_Witness ==
    \E r1, r2 \in DoneGet :
        /\ r1.req.path = <<"effects">> /\ r1.response.status = 200
        /\ r2.req.path = <<"api", "health">> /\ r2.response.status = 200

==========================================================================
